---- MODULE Spec2Model ----
(***************************************************************************)
(* Model of the authentication backend: the Auth middleware                *)
(* (middleware/auth.go), the login and signup handlers (handlers/user.go), *)
(* the error-handling middleware (middleware/error_handler.go), the error  *)
(* taxonomy (internal/errors/errors.go) and the user store                 *)
(* (internal/db/db.go).  One action handles one HTTP request from its      *)
(* first middleware to its last write.                                     *)
(***************************************************************************)
EXTENDS Integers, Sequences, FiniteSets, TLC

VARIABLES
    users,      \* the users table: set of rows [email, password, name]
    now,        \* time.Now().Unix(), in seconds
    ticks,      \* how many times the clock has advanced
    jar,        \* the client's cookie jar: the cookie set by the last successful login
    globals,    \* the package-level *AppError values of internal/errors
    dbUp,       \* whether the store answers; FALSE makes every store call fail
    last,       \* the request just handled and everything it did, until its
                \* response is delivered
    running     \* the requests being handled at the same time, one per
                \* goroutine, where handlers interleave

vars == <<users, now, ticks, jar, globals, dbUp, last, running>>

(***************************************************************************)
(* Bounds of the model.                                                    *)
(***************************************************************************)
MaxTicks == 3

(***************************************************************************)
(* Program constants.                                                      *)
(***************************************************************************)
SECRET_KEY == "SECRET"
TokenTTL == 86400
StatusOK == 200
StatusBadRequest == 400
StatusUnauthorized == 401
StatusNotFound == 404
StatusConflict == 409
StatusInternalServerError == 500
PasswordMin == 12
PasswordMax == 72

ErrDBNotFound == "DB_NOT_FOUND"
ErrDBDuplicate == "DB_DUPLICATE"
ErrAuthInvalid == "AUTH_INVALID"
ErrAuthRequired == "AUTH_REQUIRED"
ErrAuthExpired == "AUTH_EXPIRED"
ErrDBExecution == "DB_EXECUTION"
ErrValidation == "VALIDATION_ERROR"
ErrInternal == "INTERNAL_ERROR"

(***************************************************************************)
(* JSON bodies.  A body is a JSON object with the keys the handlers use;   *)
(* a key that is not written holds Absent.  "details" is null, a string or *)
(* a map from field name to message; "user" is a created record.           *)
(***************************************************************************)
Absent == "<absent>"
DAbsent == [t |-> "absent", m |-> {}, s |-> ""]
DNull == [t |-> "null", m |-> {}, s |-> ""]

NoRecord == [email |-> "", name |-> ""]

DStr(s) == [t |-> "str", m |-> {}, s |-> s]

DMap(m) == [t |-> "map", m |-> m, s |-> ""]

Body(error, message, details, code) ==
    [error |-> error, message |-> message, details |-> details, code |-> code,
     user |-> NoRecord]

HasKey(body, key) ==
    CASE key = "error" -> body.error # Absent
      [] key = "message" -> body.message # Absent
      [] key = "details" -> body.details.t # "absent"
      [] key = "code" -> body.code # Absent
      [] key = "user" -> body.user # NoRecord
      [] OTHER -> FALSE

Write(status, body) == [status |-> status, body |-> body]

(***************************************************************************)
(* Tokens.  A token is the cookie's value: its header algorithm, its       *)
(* claims, and its signature, described by the algorithm and key that      *)
(* computed it and whether it still matches header and payload.            *)
(***************************************************************************)
\* the zero value exp has where the token carries no exp claim
NoExp == 0
NoEmail == ""
HMACMethods == {"HS256", "HS384"}
Methods == HMACMethods \cup {"RS256", "none"}
OtherKey == "OTHER"

NoCookie ==
    [present |-> FALSE, wellformed |-> FALSE, alg |-> "", sigAlg |-> "",
     sigKey |-> "", intact |-> FALSE, email |-> NoEmail, hasExp |-> FALSE,
     exp |-> NoExp]

Garbage ==
    [present |-> TRUE, wellformed |-> FALSE, alg |-> "", sigAlg |-> "",
     sigKey |-> "", intact |-> FALSE, email |-> NoEmail, hasExp |-> FALSE,
     exp |-> NoExp]

Token(alg, sigAlg, sigKey, intact, email, exp) ==
    [present |-> TRUE, wellformed |-> TRUE, alg |-> alg, sigAlg |-> sigAlg,
     sigKey |-> sigKey, intact |-> intact, email |-> email, hasExp |-> TRUE,
     exp |-> exp]

\* the token with its exp claim left out
WithoutExp(tok) == [tok EXCEPT !.hasExp = FALSE, !.exp = NoExp]

Claims(tok) == [email |-> tok.email, hasExp |-> tok.hasExp, exp |-> tok.exp]

NoClaims == [email |-> NoEmail, hasExp |-> FALSE, exp |-> NoExp]

\* mutant: the token is signed with HS384 whatever method was asked for
SignedStringHS384(method, key, email, exp) ==
    [err |-> "", tok |-> Token("HS384", "HS384", key, TRUE, email, exp)]

\* token.SignedString(key) of jwt.NewWithClaims(method, {email, exp}); an
\* HMAC method signs any []byte key
SignedString(method, key, email, exp) ==
    [err |-> IF method \in {"HS256", "HS384"} THEN "" ELSE "key is of invalid type",
     tok |-> Token(method, method, key, TRUE, email, exp)]

\* mutant: the signature is recomputed under whatever key signed it
VerifyAnyKey(tok, key) ==
    /\ tok.alg \in {"HS256", "HS384"}
    /\ tok.sigAlg = tok.alg
    /\ tok.intact

\* token.Method.Verify(signingString, signature, key) with a []byte key:
\* an HMAC method recomputes the signature; the other methods refuse the key
Verify(tok, key) ==
    /\ tok.alg \in {"HS256", "HS384"}
    /\ tok.sigAlg = tok.alg
    /\ tok.sigKey = key
    /\ tok.intact

\* the key function Auth hands to jwt.Parse: HMAC methods only
KeyFunc(tok) ==
    IF tok.alg \notin HMACMethods
    THEN [err |-> "unexpected signing method: " \o tok.alg, key |-> ""]
    ELSE [err |-> "", key |-> SECRET_KEY]

\* mutant: a token is refused from the second its exp names
ClaimsValidStrict(tok, t) ==
    ~tok.hasExp \/ tok.exp = 0 \/ t < tok.exp

\* MapClaims.Valid() of the jwt library: exp, when present, must not be
\* past; the library takes an exp of 0 for an exp that is not set
ClaimsValid(tok, t) ==
    ~tok.hasExp \/ tok.exp = 0 \/ t <= tok.exp

\* mutant: the token is decoded and its claims validated, but neither the
\* key function nor the signature check runs
ParseUnverified(tok, t) ==
    IF ~tok.wellformed
    THEN [err |-> "token contains an invalid number of segments",
          valid |-> FALSE, mapClaims |-> TRUE, claims |-> NoClaims]
    ELSE LET e1 == IF ClaimsValid(tok, t) THEN "" ELSE "Token is expired"
         IN [err |-> e1, valid |-> e1 = "", mapClaims |-> TRUE, claims |-> Claims(tok)]

\* jwt.Parse(tokenString, keyFunc): key function, claims, then signature;
\* the signature's error replaces the claims' error
Parse(tok, t) ==
    IF ~tok.wellformed
    THEN [err |-> "token contains an invalid number of segments",
          valid |-> FALSE, mapClaims |-> TRUE, claims |-> NoClaims]
    ELSE LET k == KeyFunc(tok) IN
         IF k.err # ""
         THEN [err |-> k.err, valid |-> FALSE, mapClaims |-> TRUE,
               claims |-> Claims(tok)]
         ELSE LET e1 == IF ClaimsValid(tok, t) THEN "" ELSE "Token is expired"
                  e2 == IF Verify(tok, k.key) THEN e1 ELSE "signature is invalid"
              IN [err |-> e2, valid |-> e2 = "", mapClaims |-> TRUE,
                  claims |-> Claims(tok)]

(***************************************************************************)
(* The Auth middleware.  Its result: the bodies it wrote, whether it       *)
(* aborted the chain, whether it called c.Next(), and the claims it set    *)
(* in the request's context.                                               *)
(***************************************************************************)
\* mutant: the 401 is written but the chain is not aborted
AuthRejectNoAbort(body) ==
    [writes |-> <<Write(StatusUnauthorized, body)>>, aborted |-> FALSE,
     calledNext |-> FALSE, ctxSet |-> FALSE, ctxClaims |-> NoClaims]

\* mutant: the request is admitted without its claims being set
AuthAdmitNoContext(claims) ==
    [writes |-> <<>>, aborted |-> FALSE, calledNext |-> TRUE,
     ctxSet |-> FALSE, ctxClaims |-> NoClaims]

AuthReject(body) ==
    [writes |-> <<Write(StatusUnauthorized, body)>>, aborted |-> TRUE,
     calledNext |-> FALSE, ctxSet |-> FALSE, ctxClaims |-> NoClaims]

AuthAdmit(claims) ==
    [writes |-> <<>>, aborted |-> FALSE, calledNext |-> TRUE,
     ctxSet |-> TRUE, ctxClaims |-> claims]

RejectNoCookie == AuthReject(Body("token not found in cookie", Absent, DAbsent, Absent))

RejectInvalid(err) == AuthReject(Body("invalid token", Absent, DStr(err), Absent))

RejectClaims == AuthReject(Body("invalid token claims", Absent, DAbsent, Absent))

RejectExpired == AuthReject(Body("token expired", Absent, DAbsent, Absent))

\* t is the clock as jwt.Parse reads it, t2 as Auth reads it afterwards for
\* its own comparison with exp
Auth(cookie, t, t2) ==
    IF ~cookie.present
    THEN RejectNoCookie
    ELSE LET p == Parse(cookie, t) IN
         IF p.err # "" \/ ~p.valid
         THEN RejectInvalid(p.err)
         ELSE IF ~p.mapClaims
              THEN RejectClaims
              ELSE IF ~p.claims.hasExp \/ p.claims.exp < t2
                   THEN RejectExpired
                   ELSE AuthAdmit(p.claims)

\* the handler registered behind Auth on the /auth group
AuthorizedHandler == <<Write(StatusOK, Body(Absent, "you are authorized", DAbsent, Absent))>>

\* gin runs the group's chain <<Auth, handler>>: the handler runs inside
\* Auth's c.Next(), or after Auth returns without having aborted
AuthChain(cookie, t, t2) ==
    LET a == Auth(cookie, t, t2)
        runs == a.calledNext \/ ~a.aborted
    IN [writes |-> a.writes \o (IF runs THEN AuthorizedHandler ELSE <<>>),
        authWrites |-> Len(a.writes),
        aborted |-> a.aborted,
        handlerRan |-> runs,
        seen |-> IF runs /\ a.ctxSet THEN a.ctxClaims ELSE NoClaims,
        seenSet |-> runs /\ a.ctxSet]

(***************************************************************************)
(* The error taxonomy of internal/errors.                                  *)
(***************************************************************************)
AppError(code, message, details, status) ==
    [Code |-> code, Message |-> message, Details |-> details, HTTPStatus |-> status]

\* the package-level values as they are after package initialisation
CommonErrors ==
    [ErrNotFound |-> AppError(ErrDBNotFound, "Resource not found", DNull, StatusNotFound),
     ErrInvalidCredentials |->
        AppError(ErrAuthInvalid, "Invalid credentials", DNull, StatusUnauthorized),
     ErrInternalServer |->
        AppError(ErrInternal, "Internal server error", DNull, StatusInternalServerError),
     ErrDuplicateEntry |->
        AppError(ErrDBDuplicate, "Resource already exists", DNull, StatusConflict),
     ErrInvalidInput |->
        AppError(ErrValidation, "Invalid input parameters", DNull, StatusBadRequest)]

\* (e *AppError).WithDetails(details) on a package-level value: it assigns
\* the field of the shared value and returns the same pointer
WithDetails(g, name, details) ==
    [g EXCEPT ![name].Details = details]

\* an error value: nil, or a node of an error chain.  A node is an
\* *AppError (a pointer to a package-level value, named by global, or to a
\* value of its own, val) or an error of another type with its text; cause
\* holds what the node wraps, if anything
NilErr == [nil |-> TRUE]

\* (*AppError)(nil)
NilAppError == AppError("<nil>", "<nil>", DNull, 0)

ErrNode(isApp, global, val, text, cause) ==
    [isApp |-> isApp, global |-> global, val |-> val, text |-> text, cause |-> cause]

\* an error interface that holds a nil *AppError
NilPtrErr == ErrNode(TRUE, "", NilAppError, "", <<>>)

\* an error that is no AppError and wraps nothing
PlainErr(text) == ErrNode(FALSE, "", NilAppError, text, <<>>)

\* errors.Wrap(err, text) of the errors library
WrapPlain(err, text) == ErrNode(FALSE, "", NilAppError, text, <<err>>)

\* a pointer to the package-level error name; New gave the value its cause,
\* an error with the value's message
GlobalErr(name) ==
    ErrNode(TRUE, name, AppError("", "", DNull, 0), "",
            <<PlainErr(CommonErrors[name].Message)>>)

FreshErr(appErr) == ErrNode(TRUE, "", appErr, "", <<>>)

\* New(code, message, status)
New(code, message, status) ==
    ErrNode(TRUE, "", AppError(code, message, DNull, status), "", <<PlainErr(message)>>)

\* Wrap(err, code, message, status)
Wrap(err, code, message, status) ==
    IF err = NilErr
    THEN NilPtrErr
    ELSE ErrNode(TRUE, "", AppError(code, message, DNull, status), "",
                 <<WrapPlain(err, message)>>)

\* mutant: only the error itself is looked at, not what it wraps
AsTopOnly(err) ==
    IF err = NilErr
    THEN [found |-> FALSE, node |-> NilErr]
    ELSE IF err.isApp
    THEN [found |-> TRUE, node |-> err]
    ELSE [found |-> FALSE, node |-> NilErr]

\* errors.As(err, &appErr): the first *AppError on err's chain
RECURSIVE As(_)
As(err) ==
    IF err = NilErr
    THEN [found |-> FALSE, node |-> NilErr]
    ELSE IF err.isApp
    THEN [found |-> TRUE, node |-> err]
    ELSE IF err.cause = <<>>
    THEN [found |-> FALSE, node |-> NilErr]
    ELSE As(err.cause[1])

\* the *AppError FormatError returns, as the error it is: nil for nil, the
\* AppError found on the chain, or a new one that wraps err
FormatErrorPtr(err) ==
    IF err = NilErr
    THEN NilPtrErr
    ELSE LET a == As(err) IN
         IF a.found
         THEN a.node
         ELSE ErrNode(TRUE, "",
                      AppError(ErrInternal, "An unexpected error occurred", DNull,
                               StatusInternalServerError),
                      "", <<WrapPlain(err, "unexpected error")>>)

\* the fields read through an *AppError
Deref(node, g) == IF node.global # "" THEN g[node.global] ELSE node.val

FormatError(err, g) == Deref(FormatErrorPtr(err), g)

(***************************************************************************)
(* The user store.  The users table has a unique constraint on email.      *)
(***************************************************************************)
PqUniqueViolation == "23505"
StoreFault == "connection refused"
NoRows == "sql: no rows in result set"
NoUser == [email |-> "", password |-> [salt |-> 0, pw |-> <<>>], name |-> ""]

\* mutant: the insert replaces the row that holds the email
CreateUserUpsert(rows, up, arg) ==
    IF ~up
    THEN [err |-> StoreFault, rows |-> rows]
    ELSE [err |-> "", rows |-> {r \in rows : r.email # arg.email} \cup {arg}]

\* mutant: an insert that meets the email it carries changes nothing and
\* reports no error
CreateUserDoNothing(rows, up, arg) ==
    IF ~up
    THEN [err |-> StoreFault, rows |-> rows]
    ELSE IF \E r \in rows : r.email = arg.email
         THEN [err |-> "", rows |-> rows]
         ELSE [err |-> "", rows |-> rows \cup {arg}]

\* (d *DB).CreateUser: INSERT INTO users; the row, or the insert's error
CreateUser(rows, up, arg) ==
    IF ~up
    THEN [err |-> StoreFault, rows |-> rows]
    ELSE IF \E r \in rows : r.email = arg.email
         THEN [err |-> PqUniqueViolation, rows |-> rows]
         ELSE [err |-> "", rows |-> rows \cup {arg}]

\* (d *DB).GetUserByEmail: SELECT ... WHERE email = ?
GetUserByEmail(rows, up, email) ==
    IF ~up
    THEN [err |-> StoreFault, user |-> NoUser]
    ELSE IF \E r \in rows : r.email = email
         THEN [err |-> "", user |-> CHOOSE r \in rows : r.email = email]
         ELSE [err |-> NoRows, user |-> NoUser]

(***************************************************************************)
(* bcrypt: a hash embeds its salt and verifies exactly its plaintext.  It  *)
(* refuses a password of more than 72 bytes; the characters used here are  *)
(* one byte each.                                                          *)
(***************************************************************************)
GenerateFromPassword(pw, salt) ==
    [err |-> IF Len(pw) > 72 THEN "bcrypt: password length exceeds 72 bytes" ELSE "",
     hash |-> [salt |-> salt, pw |-> pw]]

CompareHashAndPassword(hash, pw) == hash.pw = pw

(***************************************************************************)
(* Request inputs.  A password is its sequence of characters.              *)
(***************************************************************************)
UpperChars == {"T", "W", "P"}
LowerChars == {"e", "s", "t", "r", "o", "n", "g", "a", "w", "d", "p"}
DigitChars == {"1", "2", "3", "4"}
PunctChars == {"!", "@", "#"}
SymbolChars == {"$"}

PwTest == <<"T", "e", "s", "t", "1", "2", "3", "4", "!", "@", "#", "$">>
PwWrong ==
    <<"W", "r", "o", "n", "g", "P", "a", "s", "s", "w", "o", "r", "d", "1", "2", "3", "!">>
PwSimple == <<"p", "a", "s", "s", "w", "o", "r", "d">>
PwLower == <<"p", "a", "s", "s", "w", "o", "r", "d", "p", "a", "s", "s">>
PwMissing == <<>>

LoginPasswords == {PwTest, PwWrong, PwMissing}
SignupPasswords == {PwTest, PwSimple, PwLower, PwMissing}
Salts == {1, 2}

EmailA == "a@example.com"
EmailB == "b@example.com"
EmailBad == "not-an-email"
EmailMissing == ""
Emails == {EmailA, EmailB, EmailBad, EmailMissing}

NameTest == "Test User"
NameMissing == ""
Names == {NameTest, NameMissing}

\* the validator's "email" tag
IsEmail(e) == e \in {EmailA, EmailB}

\* a request body: malformed JSON, or an object whose missing fields are
\* the zero values
Request(malformed, email, password, name) ==
    [malformed |-> malformed, email |-> email, password |-> password, name |-> name]

MalformedRequest == Request(TRUE, EmailMissing, PwMissing, NameMissing)

LoginRequests ==
    {MalformedRequest} \cup
    {Request(FALSE, e, p, NameMissing) : e \in Emails, p \in LoginPasswords}

SignupRequests ==
    {MalformedRequest} \cup
    {Request(FALSE, e, p, n) : e \in Emails, p \in SignupPasswords, n \in Names}

(***************************************************************************)
(* Input binding: c.ShouldBindJSON with the struct tags of LoginInput and  *)
(* SignupInput.  The validator reports, per field in struct order, the     *)
(* first tag that fails, as a pair <<field, tag>>.                         *)
(***************************************************************************)
EmailTag(e) ==
    IF e = EmailMissing THEN "required"
    ELSE IF ~IsEmail(e) THEN "email" ELSE ""

\* mutant: login applies the length limits of signup
LoginPasswordTagPolicy(p) ==
    IF p = PwMissing THEN "required"
    ELSE IF Len(p) < PasswordMin THEN "min"
    ELSE IF Len(p) > PasswordMax THEN "max" ELSE ""

LoginPasswordTag(p) == IF p = PwMissing THEN "required" ELSE ""

\* mutant: the password's tags are required,min=12, without max=72
SignupPasswordTagNoMax(p) ==
    IF p = PwMissing THEN "required"
    ELSE IF Len(p) < PasswordMin THEN "min" ELSE ""

SignupPasswordTag(p) ==
    IF p = PwMissing THEN "required"
    ELSE IF Len(p) < PasswordMin THEN "min"
    ELSE IF Len(p) > PasswordMax THEN "max" ELSE ""

NameTag(n) == IF n = NameMissing THEN "required" ELSE ""

FieldErrors(pairs) == {fe \in pairs : fe[2] # ""}

\* mutant: the email is bound with required only, without the email tag
BindLoginNoEmailTag(req) ==
    IF req.malformed
    THEN [err |-> "json", ve |-> {}]
    ELSE LET ve == FieldErrors({<<"Email", IF req.email = EmailMissing
                                           THEN "required" ELSE "">>,
                                <<"Password", LoginPasswordTag(req.password)>>})
         IN [err |-> IF ve = {} THEN "" ELSE "validation", ve |-> ve]

\* binding of LoginInput
BindLogin(req) ==
    IF req.malformed
    THEN [err |-> "json", ve |-> {}]
    ELSE LET ve == FieldErrors({<<"Email", EmailTag(req.email)>>,
                                <<"Password", LoginPasswordTag(req.password)>>})
         IN [err |-> IF ve = {} THEN "" ELSE "validation", ve |-> ve]

\* binding of SignupInput
BindSignup(req) ==
    IF req.malformed
    THEN [err |-> "json", ve |-> {}]
    ELSE LET ve == FieldErrors({<<"Email", EmailTag(req.email)>>,
                                <<"Password", SignupPasswordTag(req.password)>>,
                                <<"Name", NameTag(req.name)>>})
         IN [err |-> IF ve = {} THEN "" ELSE "validation", ve |-> ve]

ToLower(field) ==
    CASE field = "Email" -> "email"
      [] field = "Password" -> "password"
      [] field = "Name" -> "name"
      [] OTHER -> field

\* buildValidationErrorMap: field name to message, by tag
LoginErrorMsg(field, tag) ==
    CASE tag = "required" -> ToLower(field) \o "_required"
      [] tag = "email" -> "invalid_email_format"
      [] tag = "min" -> ToLower(field) \o "_too_short"
      [] tag = "max" -> ToLower(field) \o "_too_long"
      [] OTHER -> "invalid_" \o ToLower(field)

buildValidationErrorMap(ve) ==
    {<<ToLower(fe[1]), LoginErrorMsg(fe[1], fe[2])>> : fe \in ve}

\* the signup handler's own message per field and tag
SignupErrorMsg(field, tag) ==
    CASE field = "Email" -> IF tag = "email" THEN "invalid_email_format" ELSE "invalid_email"
      [] field = "Password" ->
            IF tag = "min" THEN "password_too_short"
            ELSE IF tag = "max" THEN "password_too_long" ELSE "invalid_password"
      [] field = "Name" -> "invalid_name"
      [] OTHER -> "invalid_" \o ToLower(field)

SignupErrorDetails(ve) ==
    {<<ToLower(fe[1]), SignupErrorMsg(fe[1], fe[2])>> : fe \in ve}

\* the class the switch of validPassword puts a character in: the first
\* case that matches; a character of no class (a space) sets no flag
CharClass(ch) ==
    CASE ch \in UpperChars -> {"upper"}
      [] ch \in LowerChars -> {"lower"}
      [] ch \in DigitChars -> {"digit"}
      [] ch \in PunctChars \cup SymbolChars -> {"symbol"}
      [] OTHER -> {}

\* the loop of validPassword from character i on, flags being those set so far
RECURSIVE validPasswordLoop(_, _, _)
validPasswordLoop(password, i, flags) ==
    IF i > Len(password)
    THEN flags
    ELSE validPasswordLoop(password, i + 1, flags \cup CharClass(password[i]))

\* mutant: only punctuation counts as a symbol
validPasswordPunctOnly(password) ==
    {"upper", "lower", "digit"} \subseteq validPasswordLoop(password, 1, {})
        /\ \E i \in 1..Len(password) : password[i] \in PunctChars

\* validPassword: hasUpper && hasLower && hasDigit && hasSymbol
validPassword(password) ==
    validPasswordLoop(password, 1, {}) = {"upper", "lower", "digit", "symbol"}

(***************************************************************************)
(* The handlers.  A handler's result is what it left in the gin context    *)
(* and in the program's state: the bodies written, the errors recorded     *)
(* with c.Error, the cookie set, the package-level errors, the users       *)
(* table, and how often it called the store and bcrypt.                    *)
(***************************************************************************)
Ctx(writes, errors, cookie, g, rows, lookups, creates, hashes) ==
    [writes |-> writes, errors |-> errors, cookie |-> cookie, globals |-> g,
     rows |-> rows, lookups |-> lookups, creates |-> creates, hashes |-> hashes]

LoginSuccessBody == Body(Absent, "login_success", DAbsent, Absent)

\* mutant: the token lives one hour
TokenExpiryHour(t) == t + 3600

\* "exp": time.Now().Add(24 * time.Hour).Unix()
TokenExpiry(t) == t + TokenTTL

\* mutant: a failed lookup is answered by the handler and recorded as well
LoginLookupFailedAlsoWrites(g, rows) ==
    Ctx(<<Write(StatusUnauthorized, Body("invalid credentials", Absent, DAbsent, Absent))>>,
        <<GlobalErr("ErrInvalidCredentials")>>, NoCookie, g, rows, 1, 0, 0)

\* mutant: a failed lookup is tried once more before the error is recorded
LoginLookupFailedRetry(g, rows) ==
    Ctx(<<>>, <<GlobalErr("ErrInvalidCredentials")>>, NoCookie, g, rows, 2, 0, 0)

\* the lookup failed: the generic credentials error is recorded
LoginLookupFailed(g, rows) ==
    Ctx(<<>>, <<GlobalErr("ErrInvalidCredentials")>>, NoCookie, g, rows, 1, 0, 0)

\* mutant: a mismatch is reported with an error of its own
LoginPasswordMismatchLeaky(g, rows) ==
    Ctx(<<>>, <<FreshErr(AppError(ErrAuthInvalid, "Wrong password", DNull,
                                  StatusUnauthorized))>>,
        NoCookie, g, rows, 1, 0, 0)

\* the password does not match: the generic credentials error is recorded
LoginPasswordMismatch(g, rows) ==
    Ctx(<<>>, <<GlobalErr("ErrInvalidCredentials")>>, NoCookie, g, rows, 1, 0, 0)

LoginHandler(req, rows, up, g, t) ==
    LET b == BindLogin(req) IN
    IF b.err # ""
    THEN LET validationErrors ==
                 IF b.err = "validation" THEN DMap(buildValidationErrorMap(b.ve))
                 ELSE DNull
         IN Ctx(<<>>, <<GlobalErr("ErrInvalidInput")>>, NoCookie,
                WithDetails(g, "ErrInvalidInput", validationErrors), rows, 0, 0, 0)
    ELSE LET u == GetUserByEmail(rows, up, req.email) IN
         IF u.err # ""
         THEN LoginLookupFailed(g, rows)
         ELSE IF ~CompareHashAndPassword(u.user.password, req.password)
              THEN LoginPasswordMismatch(g, rows)
              ELSE LET signed == SignedString("HS256", SECRET_KEY, req.email,
                                              TokenExpiry(t))
                   IN IF signed.err # ""
                      THEN Ctx(<<>>,
                               <<Wrap(PlainErr(signed.err), ErrInternal,
                                      "Failed to generate authentication token",
                                      StatusInternalServerError)>>,
                               NoCookie, g, rows, 1, 0, 0)
                      ELSE Ctx(<<Write(StatusOK, LoginSuccessBody)>>, <<>>, signed.tok,
                               g, rows, 1, 0, 0)

SignupBody(error) == Body(error, Absent, DAbsent, "400")

InternalBody == Body("internal_server_error", Absent, DAbsent, "500")

UserCreatedBody == Body(Absent, "user_created", DAbsent, Absent)

\* the success response; the row the store returned for arg is discarded
SignupCreated(arg) == Write(StatusOK, UserCreatedBody)

\* SignupHandler up to its call of the store: binding, the complexity check
\* and the hash.  Either the handler has returned (done, with its context)
\* or it goes on to insert arg.
SignupBegin(req, rows, g, salt) ==
    LET b == BindSignup(req)
        none == NoUser
    IN
    IF b.err = "validation"
    THEN [done |-> TRUE, arg |-> none,
          ctx |-> Ctx(<<Write(StatusBadRequest,
                              Body("validation_failed", Absent,
                                   DMap(SignupErrorDetails(b.ve)), "400"))>>,
                      <<>>, NoCookie, g, rows, 0, 0, 0)]
    ELSE IF b.err # ""
    THEN [done |-> TRUE, arg |-> none,
          ctx |-> Ctx(<<Write(StatusBadRequest, SignupBody("invalid_request_payload"))>>,
                      <<>>, NoCookie, g, rows, 0, 0, 0)]
    ELSE IF ~validPassword(req.password)
    THEN [done |-> TRUE, arg |-> none,
          ctx |-> Ctx(<<Write(StatusBadRequest,
                              SignupBody("password_complexity_insufficient"))>>,
                      <<>>, NoCookie, g, rows, 0, 0, 0)]
    ELSE LET hashed == GenerateFromPassword(req.password, salt) IN
         IF hashed.err # ""
         THEN [done |-> TRUE, arg |-> none,
               ctx |-> Ctx(<<Write(StatusInternalServerError, InternalBody)>>,
                           <<>>, NoCookie, g, rows, 0, 0, 1)]
         ELSE [done |-> FALSE,
               arg |-> [email |-> req.email, password |-> hashed.hash,
                        name |-> req.name],
               ctx |-> Ctx(<<>>, <<>>, NoCookie, g, rows, 0, 0, 1)]

\* SignupHandler from the store's answer c to its insert of arg
SignupEnd(c, arg, g) ==
    IF c.err = PqUniqueViolation
    THEN Ctx(<<Write(StatusBadRequest, SignupBody("email_already_exists"))>>,
             <<>>, NoCookie, g, c.rows, 0, 1, 1)
    ELSE IF c.err # ""
    THEN Ctx(<<Write(StatusInternalServerError, InternalBody)>>,
             <<>>, NoCookie, g, c.rows, 0, 1, 1)
    ELSE Ctx(<<SignupCreated(arg)>>, <<>>, NoCookie, g, c.rows, 0, 1, 1)

SignupHandler(req, rows, up, g, salt) ==
    LET b == SignupBegin(req, rows, g, salt) IN
    IF b.done
    THEN b.ctx
    ELSE SignupEnd(CreateUser(rows, up, b.arg), b.arg, g)

\* a value handed to panic: an error, or a value of another type (the
\* string c.MustGet panics with)
PanicValue(isError, err) == [isError |-> isError, err |-> err]

NoPanic == PanicValue(FALSE, NilErr)

\* mutant: the panic is recovered and nothing is written
RecoverSilent(r, g) == [writes |-> <<>>, aborted |-> FALSE]

\* ErrorHandler's deferred function when recover() returns r: the error r
\* is, or a new INTERNAL_ERROR, formatted and written with
\* c.AbortWithStatusJSON
Recover(r, g) ==
    LET err == IF r.isError
               THEN r.err
               ELSE New(ErrInternal, "Internal server error", StatusInternalServerError)
        appErr == FormatError(err, g)
    IN [writes |-> <<Write(appErr.HTTPStatus,
                           Body(appErr.Code, appErr.Message, appErr.Details, Absent))>>,
        aborted |-> TRUE]

\* ErrorHandler: after c.Next(), the last recorded error, formatted, is
\* written as the JSON error body
ErrorHandler(h) ==
    IF Len(h.errors) > 0
    THEN LET appErr == FormatError(h.errors[Len(h.errors)], h.globals)
         IN [h EXCEPT !.writes =
                 h.writes \o <<Write(appErr.HTTPStatus,
                                     Body(appErr.Code, appErr.Message, appErr.Details,
                                          Absent))>>]
    ELSE h

(***************************************************************************)
(* The state machine.                                                      *)
(***************************************************************************)
NoRequest == Request(FALSE, EmailMissing, PwMissing, NameMissing)

Observation(kind, req, cookie, fromJar, t, before, h, a) ==
    [kind |-> kind, req |-> req, cookie |-> cookie, fromJar |-> fromJar, at |-> t,
     before |-> before,
     writes |-> h.writes, nErrors |-> Len(h.errors), setCookie |-> h.cookie,
     lookups |-> h.lookups, creates |-> h.creates, hashes |-> h.hashes,
     aborted |-> a.aborted, handlerRan |-> a.handlerRan, authWrites |-> a.authWrites,
     seen |-> a.seen, seenSet |-> a.seenSet, panic |-> NoPanic]

NoCtx == Ctx(<<>>, <<>>, NoCookie, CommonErrors, {}, 0, 0, 0)

NoAuth ==
    [writes |-> <<>>, authWrites |-> 0, aborted |-> FALSE, handlerRan |-> TRUE,
     seen |-> NoClaims, seenSet |-> FALSE]

NoJar == [token |-> NoCookie, issuedAt |-> 0, email |-> NoEmail]

\* the goroutines that handle requests at the same time
Procs == {1, 2}

\* a goroutine's request: where its handler stands ("idle", "create" before
\* its call of the store, "done" once it has returned), the request, the row
\* it is about to insert, and the bodies written
Run(pc, req, arg, writes) == [pc |-> pc, req |-> req, arg |-> arg, writes |-> writes]

NoRun == Run("idle", NoRequest, NoUser, <<>>)

NoRunning == [p \in Procs |-> NoRun]

Idle == Observation("none", NoRequest, NoCookie, FALSE, 0, {}, NoCtx, NoAuth)

Init ==
    /\ users = {}
    /\ now = 0
    /\ ticks = 0
    /\ jar = NoJar
    /\ globals = CommonErrors
    /\ dbUp = TRUE
    /\ last = Idle
    /\ running = NoRunning

TickSteps == {1, TokenTTL - 1}

\* the clock advances
Tick(d) ==
    /\ last = Idle
    /\ ticks < MaxTicks
    /\ now' = now + d
    /\ ticks' = ticks + 1
    /\ UNCHANGED <<users, jar, globals, dbUp, last, running>>

\* the package-level errors as ErrorHandler reads them once the handler has
\* returned h: as the handler left them, or as the LoginHandler of another
\* request, run on its own goroutine in between, left them.  ErrorHandler
\* reads them only when an error was recorded, and a LoginHandler writes
\* them only when binding failed.
Interleaved(h, rows, up, t) ==
    IF Len(h.errors) = 0
    THEN {h.globals}
    ELSE {h.globals} \cup
         {LoginHandler(other, rows, up, h.globals, t).globals :
              other \in {r \in LoginRequests : BindLogin(r).err # ""}}

\* POST /login through ErrorHandler and LoginHandler
Login(req) ==
    /\ last = Idle
    /\ LET h0 == LoginHandler(req, users, dbUp, globals, now) IN
       \E g \in Interleaved(h0, users, dbUp, now) :
          LET h == ErrorHandler([h0 EXCEPT !.globals = g]) IN
          /\ globals' = h.globals
          /\ jar' = IF h.cookie.present
                    THEN [token |-> h.cookie, issuedAt |-> now, email |-> req.email]
                    ELSE jar
          /\ last' = Observation("login", req, NoCookie, FALSE, now, users, h, NoAuth)
    /\ UNCHANGED <<users, now, ticks, dbUp, running>>

\* POST /signup through ErrorHandler and SignupHandler
Signup(req, salt) ==
    LET h == ErrorHandler(SignupHandler(req, users, dbUp, globals, salt)) IN
    /\ last = Idle
    /\ users' = h.rows
    /\ globals' = h.globals
    /\ last' = Observation("signup", req, NoCookie, FALSE, now, users, h, NoAuth)
    /\ UNCHANGED <<now, ticks, jar, dbUp, running>>

\* the signatures a presented token can carry: computed for its header
\* under the server's key, under another key, no longer matching the
\* payload, or computed with HS256 under the server's key whatever the
\* header declares
Signatures(alg) ==
    {[sigAlg |-> alg, sigKey |-> SECRET_KEY, intact |-> TRUE],
     [sigAlg |-> alg, sigKey |-> OtherKey, intact |-> TRUE],
     [sigAlg |-> alg, sigKey |-> SECRET_KEY, intact |-> FALSE],
     [sigAlg |-> "HS256", sigKey |-> SECRET_KEY, intact |-> TRUE]}

\* the cookies a client can present besides the one in its jar
ForgedCookies ==
    LET signed == UNION {{Token(alg, sig.sigAlg, sig.sigKey, sig.intact, EmailA, exp) :
                             sig \in Signatures(alg), exp \in {now - 1, now, now + 1}} :
                         alg \in Methods}
    IN {NoCookie, Garbage} \cup signed \cup {WithoutExp(tok) : tok \in signed}

\* the seconds the clock can advance between the two readings of one request
ClockSteps == {0, 1}

\* GET /auth through Auth and the handler behind it; the clock is read in
\* jwt.Parse and again in Auth, d seconds later, and the request is observed
\* at the second reading
AuthRequest(cookie, fromJar, d) ==
    LET a == AuthChain(cookie, now, now + d)
        h == [NoCtx EXCEPT !.writes = a.writes]
    IN
    /\ last = Idle
    /\ d > 0 => ticks < MaxTicks
    /\ now' = now + d
    /\ ticks' = IF d > 0 THEN ticks + 1 ELSE ticks
    /\ last' = Observation("auth", NoRequest, cookie, fromJar, now + d, users, h, a)
    /\ UNCHANGED <<users, jar, globals, dbUp, running>>

\* the response goes out and the request's context is released
Deliver ==
    /\ last # Idle
    /\ last' = Idle
    /\ UNCHANGED <<users, now, ticks, jar, globals, dbUp, running>>

Next ==
    \/ \E d \in TickSteps : Tick(d)
    \/ \E req \in LoginRequests : Login(req)
    \/ \E req \in SignupRequests : \E salt \in Salts : Signup(req, salt)
    \/ \E cookie \in ForgedCookies : \E d \in ClockSteps : AuthRequest(cookie, FALSE, d)
    \/ \E d \in ClockSteps : AuthRequest(jar.token, TRUE, d)
    \/ Deliver

Spec == Init /\ [][Next]_vars

\* the store stops answering: every call to it fails until it recovers
StoreFails ==
    /\ last = Idle
    /\ dbUp
    /\ dbUp' = FALSE
    /\ UNCHANGED <<users, now, ticks, jar, globals, last, running>>

StoreRecovers ==
    /\ last = Idle
    /\ ~dbUp
    /\ dbUp' = TRUE
    /\ UNCHANGED <<users, now, ticks, jar, globals, last, running>>

\* logins and signups against a store that can fail; the clock stands
\* still, no handler's use of the store depends on it
NextFault ==
    \/ \E req \in LoginRequests : Login(req)
    \/ \E req \in SignupRequests : \E salt \in Salts : Signup(req, salt)
    \/ Deliver
    \/ StoreFails
    \/ StoreRecovers

SpecFault == Init /\ [][NextFault]_vars

(***************************************************************************)
(* Signups handled at the same time.  Each goroutine runs SignupHandler on *)
(* its own request; the one step that touches shared state is the INSERT   *)
(* of CreateUser, a single statement the store executes atomically.        *)
(***************************************************************************)
RaceRequests ==
    {Request(FALSE, e, p, n) : e \in {EmailA, EmailB}, p \in {PwTest, PwLower},
                               n \in Names}

\* goroutine p receives req and runs SignupHandler up to its store call
SignupStart(p, req, salt) ==
    LET b == SignupBegin(req, users, globals, salt) IN
    /\ running[p].pc = "idle"
    /\ running' = [running EXCEPT ![p] =
                       IF b.done
                       THEN Run("done", req, b.arg, ErrorHandler(b.ctx).writes)
                       ELSE Run("create", req, b.arg, <<>>)]
    /\ UNCHANGED <<users, now, ticks, jar, globals, dbUp, last>>

\* goroutine p's insert reaches the store, and the handler returns
SignupInsert(p) ==
    LET c == CreateUser(users, dbUp, running[p].arg)
        h == ErrorHandler(SignupEnd(c, running[p].arg, globals))
    IN
    /\ running[p].pc = "create"
    /\ users' = c.rows
    /\ running' = [running EXCEPT ![p] =
                       Run("done", running[p].req, running[p].arg, h.writes)]
    /\ UNCHANGED <<now, ticks, jar, globals, dbUp, last>>

NextRace ==
    \/ \E p \in Procs : \E req \in RaceRequests : \E salt \in Salts :
          SignupStart(p, req, salt)
    \/ \E p \in Procs : SignupInsert(p)

SpecRace == Init /\ [][NextRace]_vars

(***************************************************************************)
(* Logins handled at the same time.  LoginHandler returns to ErrorHandler  *)
(* with a pointer to a package-level AppError in c.Errors; ErrorHandler    *)
(* reads the fields of that value when it writes the body.  The handler's  *)
(* write of ErrInvalidInput.Details and the middleware's read of it are    *)
(* separate steps, and no lock orders them across goroutines.              *)
(***************************************************************************)
\* a goroutine's login: where it stands ("respond" once LoginHandler has
\* returned, "done" once ErrorHandler has), the request, the handler's
\* context and the bodies written
LoginRun(pc, req, h, writes) == [pc |-> pc, req |-> req, h |-> h, writes |-> writes]

\* goroutine p receives req and runs LoginHandler to its return
LoginHandle(p, req) ==
    LET h == LoginHandler(req, users, dbUp, globals, now) IN
    /\ running[p].pc = "idle"
    /\ globals' = h.globals
    /\ running' = [running EXCEPT ![p] = LoginRun("respond", req, h, h.writes)]
    /\ UNCHANGED <<users, now, ticks, jar, dbUp, last>>

\* goroutine p is back in ErrorHandler, which formats the last recorded
\* error from the package-level values as they are now
LoginRespond(p) ==
    LET h == ErrorHandler([running[p].h EXCEPT !.globals = globals]) IN
    /\ running[p].pc = "respond"
    /\ running' = [running EXCEPT ![p] =
                       LoginRun("done", running[p].req, running[p].h, h.writes)]
    /\ UNCHANGED <<users, now, ticks, jar, globals, dbUp, last>>

NextLoginRace ==
    \/ \E p \in Procs : \E req \in LoginRequests : LoginHandle(p, req)
    \/ \E p \in Procs : LoginRespond(p)

SpecLoginRace == Init /\ [][NextLoginRace]_vars

(***************************************************************************)
(* Handlers that panic.  LoginHandler and SignupHandler panic in           *)
(* c.MustGet("mydb") when no middleware has set the store, with a string;  *)
(* a failed type assertion or a nil dereference panics with an error; a    *)
(* handler can panic with an AppError.  The panic passes through c.Next()  *)
(* of ErrorHandler, whose deferred function recovers it.                   *)
(***************************************************************************)
PanicValues ==
    {PanicValue(FALSE, NilErr),
     PanicValue(TRUE, PlainErr("runtime error: invalid memory address")),
     PanicValue(TRUE, GlobalErr("ErrInvalidInput")),
     PanicValue(TRUE, New(ErrDBNotFound, "Resource not found", StatusNotFound)),
     PanicValue(TRUE, WrapPlain(GlobalErr("ErrInvalidCredentials"), "login"))}

\* a request whose handler panics with r before it has written anything
PanicRequest(r) ==
    LET rec == Recover(r, globals)
        h == [NoCtx EXCEPT !.writes = rec.writes]
        a == [NoAuth EXCEPT !.aborted = rec.aborted]
    IN
    /\ last = Idle
    /\ last' = [Observation("panic", NoRequest, NoCookie, FALSE, now, users, h, a)
                    EXCEPT !.panic = r]
    /\ UNCHANGED <<users, now, ticks, jar, globals, dbUp, running>>

NextPanic ==
    \/ \E r \in PanicValues : PanicRequest(r)
    \/ \E req \in LoginRequests : Login(req)
    \/ \E req \in SignupRequests : \E salt \in Salts : Signup(req, salt)
    \/ Deliver

SpecPanic == Init /\ [][NextPanic]_vars

(***************************************************************************)
(* FormatError on its own: an error is drawn, FormatError is applied to    *)
(* it, and then to what it returned.                                       *)
(***************************************************************************)
MaxWrap == 2

\* errors that wrap nothing: nil, a nil *AppError, the package-level
\* errors, AppErrors of their own and errors of another type
BaseErrors ==
    {NilErr, NilPtrErr}
        \cup {GlobalErr(name) : name \in DOMAIN CommonErrors}
        \cup {FreshErr(AppError(ErrValidation, "Invalid input", DStr("email"),
                                StatusBadRequest)),
              New(ErrAuthExpired, "Token expired", StatusUnauthorized),
              PlainErr("sql: no rows in result set"),
              PlainErr("connection refused")}

\* errors.Wrap of the cockroachdb package: nil for nil
WrapOrNil(err, text) == IF err = NilErr THEN NilErr ELSE WrapPlain(err, text)

\* the errors with at most n wrappers, each wrapper errors.Wrap or Wrap
RECURSIVE ErrorsUpTo(_)
ErrorsUpTo(n) ==
    IF n = 0
    THEN BaseErrors
    ELSE LET inner == ErrorsUpTo(n - 1) IN
         inner \cup {WrapOrNil(e, "query failed") : e \in inner}
               \cup {Wrap(e, ErrDBExecution, "Database error", StatusInternalServerError) :
                        e \in inner}

\* the package-level errors as they are at start, and after an invalid
\* login has set the details of ErrInvalidInput
GlobalsSeen ==
    {CommonErrors, WithDetails(CommonErrors, "ErrInvalidInput", DStr("password"))}

Formatting(pc, err, out, again) == [kind |-> pc, err |-> err, out |-> out, again |-> again]

InitFormat ==
    /\ users = {}
    /\ now = 0
    /\ ticks = 0
    /\ jar = NoJar
    /\ globals \in GlobalsSeen
    /\ dbUp = TRUE
    /\ \E err \in ErrorsUpTo(MaxWrap) : last = Formatting("input", err, NilErr, NilErr)
    /\ running = NoRunning

\* appErr := FormatError(err)
Format ==
    /\ last.kind = "input"
    /\ last' = Formatting("formatted", last.err, FormatErrorPtr(last.err), NilErr)
    /\ UNCHANGED <<users, now, ticks, jar, globals, dbUp, running>>

\* FormatError(appErr)
FormatAgain ==
    /\ last.kind = "formatted"
    /\ last' = Formatting("again", last.err, last.out, FormatErrorPtr(last.out))
    /\ UNCHANGED <<users, now, ticks, jar, globals, dbUp, running>>

NextFormat == Format \/ FormatAgain

SpecFormat == InitFormat /\ [][NextFormat]_vars

(***************************************************************************)
(* One request against a given store.  The request is drawn from a wider   *)
(* set than the one the long-running server is fed: passwords around the   *)
(* two length limits, with every combination of character classes.  The    *)
(* store is empty or holds a row whose password predates the policy (the   *)
(* signupHandler of main.go inserts any password).                         *)
(***************************************************************************)
MaxCore == 4

\* one character per class, and a space, which is of no class
CoreChars == {"T", "e", "1", "!", "$", " "}

PadChars == {"e", " "}

PadLens == {0, 8, 9, 68, 69}

Cores == UNION {[1..n -> CoreChars] : n \in 0..MaxCore}

Repeat(ch, n) == [i \in 1..n |-> ch]

PolicyPasswords ==
    {core \o Repeat(ch, n) : core \in Cores, ch \in PadChars, n \in PadLens}
        \cup SignupPasswords

PwLong == PwTest \o Repeat("e", PasswordMax - Len(PwTest) + 1)

PolicyRequests ==
    {Request(FALSE, EmailA, p, NameTest) : p \in PolicyPasswords} \cup
    {Request(FALSE, e, p, n) : e \in Emails, p \in SignupPasswords \cup {PwLong},
                               n \in Names} \cup
    {MalformedRequest}

LegacyRow ==
    [email |-> EmailA, password |-> GenerateFromPassword(PwSimple, 1).hash,
     name |-> NameTest]

LegacyLoginRequests ==
    {MalformedRequest} \cup
    {Request(FALSE, e, p, NameMissing) : e \in Emails, p \in LoginPasswords \cup {PwSimple}}

\* a request that has arrived and is not handled yet
Pending(kind, req) == [Idle EXCEPT !.kind = kind, !.req = req]

InitRequest ==
    /\ users \in {{}, {LegacyRow}}
    /\ now = 0
    /\ ticks = 0
    /\ jar = NoJar
    /\ globals = CommonErrors
    /\ dbUp = TRUE
    /\ running = NoRunning
    /\ last \in {Pending("signup_request", req) : req \in PolicyRequests}
                 \cup {Pending("login_request", req) : req \in LegacyLoginRequests}

\* the pending POST /signup through ErrorHandler and SignupHandler
SignupPending(salt) ==
    LET h == ErrorHandler(SignupHandler(last.req, users, dbUp, globals, salt)) IN
    /\ last.kind = "signup_request"
    /\ users' = h.rows
    /\ globals' = h.globals
    /\ last' = Observation("signup", last.req, NoCookie, FALSE, now, users, h, NoAuth)
    /\ UNCHANGED <<now, ticks, jar, dbUp, running>>

\* the pending POST /login through ErrorHandler and LoginHandler
LoginPending ==
    /\ last.kind = "login_request"
    /\ LET h0 == LoginHandler(last.req, users, dbUp, globals, now) IN
       \E g \in Interleaved(h0, users, dbUp, now) :
          LET h == ErrorHandler([h0 EXCEPT !.globals = g]) IN
          /\ globals' = h.globals
          /\ jar' = IF h.cookie.present
                    THEN [token |-> h.cookie, issuedAt |-> now, email |-> last.req.email]
                    ELSE jar
          /\ last' = Observation("login", last.req, NoCookie, FALSE, now, users, h, NoAuth)
    /\ UNCHANGED <<users, now, ticks, dbUp, running>>

NextRequest ==
    \/ \E salt \in Salts : SignupPending(salt)
    \/ LoginPending

SpecRequest == InitRequest /\ [][NextRequest]_vars

(***************************************************************************)
(* Properties.                                                             *)
(***************************************************************************)
HandledAuth == last.kind = "auth"

Rejected401 ==
    /\ ~last.handlerRan
    /\ Len(last.writes) = 1
    /\ last.writes[1].status = StatusUnauthorized

SignatureGood(c) ==
    /\ c.alg \in HMACMethods
    /\ c.sigAlg = c.alg
    /\ c.sigKey = SECRET_KEY
    /\ c.intact

ChecksPass(c, t) ==
    /\ c.present
    /\ c.wellformed
    /\ SignatureGood(c)
    /\ c.hasExp
    /\ c.exp >= t

\* C1: a request to /auth whose token fails any check (cookie absent, token
\* unparsable, signature invalid, exp missing or past) gets exactly one
\* response, a 401 written by Auth, the chain is aborted and the handler
\* behind Auth does not run; the handler runs only when every check passed.
C1_RejectionIsTerminal ==
    HandledAuth =>
        /\ ~ChecksPass(last.cookie, last.at) => (Rejected401 /\ last.aborted)
        /\ last.handlerRan => ChecksPass(last.cookie, last.at)

C1_Witness ==
    /\ HandledAuth
    /\ last.cookie.wellformed
    /\ SignatureGood(last.cookie)
    /\ last.cookie.hasExp
    /\ last.cookie.exp < last.at
    /\ Rejected401

LoginResponse(req) == ErrorHandler(LoginHandler(req, users, dbUp, globals, now)).writes

Registered(rows, email) == \E r \in rows : r.email = email

UnknownIdentifier(req) ==
    /\ ~req.malformed
    /\ IsEmail(req.email)
    /\ req.password # PwMissing
    /\ ~Registered(users, req.email)

WrongPassword(req) ==
    /\ ~req.malformed
    /\ req.password # PwMissing
    /\ \E r \in users :
          r.email = req.email /\ ~CompareHashAndPassword(r.password, req.password)

\* what a freshly started server answers to a login with an unknown identifier
FreshCredentialFailure ==
    ErrorHandler(LoginHandler(Request(FALSE, EmailA, PwTest, NameMissing), {}, TRUE,
                              CommonErrors, 0)).writes

\* C2: in every state the server can reach, a login with an unknown
\* identifier and a login with a registered identifier and a wrong password
\* get the same status and the same body, the ones a freshly started server
\* gives; so did the login just handled.
C2_CredentialFailuresIdentical ==
    /\ \A req \in LoginRequests :
          (UnknownIdentifier(req) \/ WrongPassword(req))
              => LoginResponse(req) = FreshCredentialFailure
    /\ (last.kind = "login" /\ (UnknownIdentifier(last.req) \/ WrongPassword(last.req)))
          => last.writes = FreshCredentialFailure

C2_Witness ==
    /\ last.kind = "login"
    /\ WrongPassword(last.req)
    /\ \E req \in LoginRequests : UnknownIdentifier(req)
    /\ globals.ErrInvalidInput.Details # DNull
    /\ Len(last.writes) = 1
    /\ last.writes[1].status = StatusUnauthorized

FromJar == HandledAuth /\ last.fromJar /\ jar.token.present

\* C3: the token a successful login set is admitted at every instant from its
\* issuance to issuedAt + 24h - 1s, and rejected at issuedAt + 24h + 1s and
\* at every later instant.
C3_TokenLifetime ==
    FromJar =>
        /\ (jar.issuedAt <= last.at /\ last.at <= jar.issuedAt + TokenTTL - 1)
              => last.handlerRan
        /\ last.at >= jar.issuedAt + TokenTTL + 1 => Rejected401

C3_Witness ==
    /\ FromJar
    /\ last.at = jar.issuedAt + TokenTTL - 1
    /\ last.handlerRan

\* C4 as stated: a token is admitted only when its exp is strictly after now.
C4_Original ==
    (HandledAuth /\ last.handlerRan) => (last.cookie.hasExp /\ last.cookie.exp > last.at)

\* C4, amended: a token is admitted only when its exp is present and not
\* before now, in whole seconds and with no leeway; a properly signed token
\* presented in the very second its exp names is admitted, and any token is
\* rejected one second later.
C4_ExpiryBoundary ==
    HandledAuth =>
        /\ last.handlerRan => (last.cookie.hasExp /\ last.cookie.exp >= last.at)
        /\ (last.cookie.wellformed /\ SignatureGood(last.cookie)
               /\ last.cookie.hasExp /\ last.cookie.exp = last.at) => last.handlerRan
        /\ (last.cookie.hasExp /\ last.cookie.exp + 1 <= last.at) => Rejected401

C4_Witness ==
    /\ HandledAuth
    /\ last.cookie.hasExp
    /\ last.cookie.exp = last.at
    /\ last.handlerRan

\* C5: a token whose header declares a method outside the HMAC family is
\* rejected with a 401 and never reaches the handler, whatever its signature
\* and its exp.
C5_NonHMACRejected ==
    (HandledAuth /\ last.cookie.wellformed /\ last.cookie.alg \notin {"HS256", "HS384"})
        => Rejected401

C5_Witness ==
    /\ HandledAuth
    /\ last.cookie.alg = "RS256"
    /\ last.cookie.sigAlg = "HS256"
    /\ last.cookie.sigKey = SECRET_KEY
    /\ last.cookie.intact
    /\ last.cookie.hasExp
    /\ last.cookie.exp > last.at
    /\ Rejected401

\* C6: a token signed under a key other than SECRET_KEY is rejected with a
\* 401, whatever its claims and its exp.
C6_OtherKeyRejected ==
    (HandledAuth /\ last.cookie.wellformed /\ last.cookie.sigKey # SECRET_KEY)
        => Rejected401

C6_Witness ==
    /\ HandledAuth
    /\ last.cookie.alg = "HS256"
    /\ last.cookie.sigAlg = "HS256"
    /\ last.cookie.sigKey = OtherKey
    /\ last.cookie.intact
    /\ last.cookie.hasExp
    /\ last.cookie.exp > last.at
    /\ Rejected401

\* C7: every request Auth rejects gets the status and the body that a
\* request without a token gets.
C7_UniformRejection ==
    (HandledAuth /\ ~last.handlerRan) => last.writes = AuthChain(NoCookie, last.at, last.at).writes

\* C8: when Auth admits a request, the handler finds in the request's context
\* the claims of the presented token, whose email is the one given at login
\* when the token is the one login issued, and the only response written is
\* the handler's.
C8_AdmitSetsSubject ==
    (HandledAuth /\ last.handlerRan) =>
        /\ last.seenSet
        /\ last.seen.email = last.cookie.email
        /\ (last.fromJar => last.seen.email = jar.email)
        /\ last.authWrites = 0
        /\ last.writes = AuthorizedHandler

C8_Witness ==
    /\ FromJar
    /\ last.handlerRan
    /\ last.seen.email = EmailB

HandledSignup == last.kind = "signup"

ValidSignup(req) ==
    /\ ~req.malformed
    /\ IsEmail(req.email)
    /\ Len(req.password) >= PasswordMin
    /\ Len(req.password) <= PasswordMax
    /\ validPassword(req.password)
    /\ req.name # NameMissing

Existed == Registered(last.before, last.req.email)

\* C9: the first signup for an identifier returns the created
\* record, the second returns DB_DUPLICATE with status 409.
C9_SignupTwice ==
    (HandledSignup /\ ValidSignup(last.req)) =>
        /\ Len(last.writes) = 1
        /\ IF Existed
           THEN /\ last.writes[1].status = StatusConflict
                /\ last.writes[1].body.error = ErrDBDuplicate
           ELSE last.writes[1].body.user =
                    [email |-> last.req.email, name |-> last.req.name]

\* C10: the first valid signup for an email is answered 200 with message
\* "user_created" and stores its record; every later valid signup for that
\* email is answered 400 with a body that has the key "error", and the table
\* is left as it was.
C10_DuplicateSignup ==
    (HandledSignup /\ ValidSignup(last.req)) =>
        /\ Len(last.writes) = 1
        /\ IF Existed
           THEN /\ last.writes[1].status = StatusBadRequest
                /\ HasKey(last.writes[1].body, "error")
                /\ users = last.before
           ELSE /\ last.writes[1].status = StatusOK
                /\ last.writes[1].body.message = "user_created"
                /\ \E r \in users :
                      /\ r.email = last.req.email
                      /\ r.name = last.req.name
                      /\ users = last.before \cup {r}

C10_Witness ==
    /\ HandledSignup
    /\ ValidSignup(last.req)
    /\ Existed
    /\ \E r \in users :
          r.email = last.req.email /\ r.password.salt # 1
    /\ HasKey(last.writes[1].body, "error")

RaceOver ==
    /\ \A p \in Procs : running[p].pc = "done"
    /\ \A p \in Procs : ValidSignup(running[p].req)
    /\ \A p, q \in Procs : running[p].req.email = running[q].req.email

Succeeded(p) == running[p].writes = <<Write(StatusOK, UserCreatedBody)>>

Duplicate(p) ==
    running[p].writes = <<Write(StatusBadRequest, SignupBody("email_already_exists"))>>

\* C11: however two valid signups for the same email interleave, the table
\* never holds two rows for one email, and once both handlers have returned
\* it holds exactly one row for that email, exactly one request was answered
\* with the success response and the other with the duplicate response.
C11_RaceOneWinner ==
    /\ \A e \in Emails : Cardinality({r \in users : r.email = e}) <= 1
    /\ RaceOver =>
          /\ Cardinality({r \in users : r.email = running[1].req.email}) = 1
          /\ \E p \in Procs :
                /\ Succeeded(p)
                /\ \A q \in Procs \ {p} : Duplicate(q) /\ ~Succeeded(q)

C11_Witness ==
    /\ RaceOver
    /\ Duplicate(1)
    /\ Succeeded(2)
    /\ running[1].arg.password.salt # running[2].arg.password.salt

\* the password policy as the specification words it
LengthOK(pw) == Len(pw) >= 12 /\ Len(pw) <= 72

HasOneOf(pw, chars) == \E i \in 1..Len(pw) : pw[i] \in chars

ClassesOK(pw) ==
    /\ HasOneOf(pw, UpperChars)
    /\ HasOneOf(pw, LowerChars)
    /\ HasOneOf(pw, DigitChars)
    /\ HasOneOf(pw, PunctChars \cup SymbolChars)

OtherwiseValid(req) ==
    ~req.malformed /\ IsEmail(req.email) /\ req.name # NameMissing

\* the handler found no fault with the password: it went on to hash it
PolicyAccepted == last.hashes = 1

PolicyRejected ==
    /\ last.hashes = 0
    /\ Len(last.writes) = 1
    /\ last.writes[1].status = StatusBadRequest
    /\ last.writes[1].body.error \in {"validation_failed", "password_complexity_insufficient"}

\* C12: a signup whose other fields are valid has its password accepted
\* (the handler goes on to hash it) exactly when the password is 12 to 72
\* characters long and holds an uppercase letter, a lowercase letter, a
\* digit and a punctuation or symbol character, and is otherwise answered
\* 400 with a policy error; "Test1234!@#$" is accepted.
C12_PasswordPolicy ==
    (HandledSignup /\ OtherwiseValid(last.req)) =>
        /\ PolicyAccepted <=> (LengthOK(last.req.password) /\ ClassesOK(last.req.password))
        /\ PolicyAccepted \/ PolicyRejected
        /\ last.req.password = PwTest => PolicyAccepted

C12_Witness ==
    /\ HandledSignup
    /\ OtherwiseValid(last.req)
    /\ Len(last.req.password) = 72
    /\ HasOneOf(last.req.password, SymbolChars)
    /\ ~HasOneOf(last.req.password, PunctChars)
    /\ PolicyAccepted

\* the rules of the password policy a password breaks
BrokenRules(pw) ==
    (IF Len(pw) < 12 THEN {"too_short"} ELSE {}) \cup
    (IF Len(pw) > 72 THEN {"too_long"} ELSE {}) \cup
    (IF HasOneOf(pw, UpperChars) THEN {} ELSE {"missing_uppercase"}) \cup
    (IF HasOneOf(pw, LowerChars) THEN {} ELSE {"missing_lowercase"}) \cup
    (IF HasOneOf(pw, DigitChars) THEN {} ELSE {"missing_digit"}) \cup
    (IF HasOneOf(pw, PunctChars \cup SymbolChars) THEN {} ELSE {"missing_symbol"})

\* the rules a response names: the length rules by the message it gives for
\* the password field; "password_complexity_insufficient" names no rule
ReportedRules(body) ==
    (IF <<"password", "password_too_short">> \in body.details.m
     THEN {"too_short"} ELSE {}) \cup
    (IF <<"password", "password_too_long">> \in body.details.m
     THEN {"too_long"} ELSE {})

\* C13: the response to a signup whose password breaks several rules of the
\* policy names every rule it breaks; for "password": no uppercase letter,
\* no digit, no symbol.
C13_EveryBrokenRule ==
    (HandledSignup /\ OtherwiseValid(last.req)
        /\ Cardinality(BrokenRules(last.req.password)) >= 2) =>
        /\ Len(last.writes) = 1
        /\ BrokenRules(last.req.password) \subseteq ReportedRules(last.writes[1].body)

\* C14: a signup whose input fails validation (malformed body, a required
\* field missing, a malformed email, a password shorter than 12 or longer
\* than 72 characters or lacking a class of character) is answered with one
\* response of status 400 whose body has the key "error"; the password was
\* not hashed, the store's create was not called and the table is as it was.
C14_InvalidSignupRejected ==
    (HandledSignup /\ ~(OtherwiseValid(last.req) /\ LengthOK(last.req.password)
                            /\ ClassesOK(last.req.password))) =>
        /\ Len(last.writes) = 1
        /\ last.writes[1].status = StatusBadRequest
        /\ HasKey(last.writes[1].body, "error")
        /\ last.hashes = 0
        /\ last.creates = 0
        /\ users = last.before

C14_Witness ==
    /\ HandledSignup
    /\ OtherwiseValid(last.req)
    /\ Len(last.req.password) > 72
    /\ ClassesOK(last.req.password)
    /\ last.before # {}
    /\ last.writes[1].body.error = "validation_failed"

HandledLogin == last.kind = "login"

LoginSucceeded ==
    /\ last.writes = <<Write(StatusOK, LoginSuccessBody)>>
    /\ last.setCookie.present

\* the submitted password is the one the row of the submitted email was
\* hashed from
MatchesStored(req, rows) ==
    \E r \in rows : r.email = req.email /\ r.password.pw = req.password

\* C15: a login whose email is registered and whose password is the stored
\* one succeeds whether or not that password satisfies the signup policy;
\* a login is refused as invalid input only when the body is malformed, the
\* email is missing or malformed, or the password is missing.
C15_LoginSkipsPolicy ==
    HandledLogin =>
        /\ (~last.req.malformed /\ last.req.password # PwMissing
               /\ MatchesStored(last.req, last.before)) => LoginSucceeded
        /\ (Len(last.writes) = 1 /\ last.writes[1].status = StatusBadRequest) =>
              \/ last.req.malformed
              \/ ~IsEmail(last.req.email)
              \/ last.req.password = PwMissing

C15_Witness ==
    /\ HandledLogin
    /\ ~LengthOK(last.req.password)
    /\ ~ClassesOK(last.req.password)
    /\ MatchesStored(last.req, last.before)
    /\ LoginSucceeded

SignupSucceeded ==
    /\ HandledSignup
    /\ Len(last.writes) = 1
    /\ last.writes[1].status = StatusOK

\* the row the signup just handled has created
CreatedRow == CHOOSE r \in users \ last.before : TRUE

\* C16: the success response of signup carries the created
\* record's email and name, and neither the plaintext nor the hashed password.
C16_ReturnsRecord ==
    SignupSucceeded =>
        /\ users \ last.before # {}
        /\ last.writes[1].body.user =
               [email |-> CreatedRow.email, name |-> CreatedRow.name]

\* the taxonomy table: the code and the status of each kind of failure
Taxonomy ==
    [InvalidInput |-> <<ErrValidation, StatusBadRequest>>,
     InvalidCredentials |-> <<ErrAuthInvalid, StatusUnauthorized>>,
     DuplicateIdentity |-> <<ErrDBDuplicate, StatusConflict>>,
     Unauthenticated |-> <<ErrAuthRequired, StatusUnauthorized>>,
     Internal |-> <<ErrInternal, StatusInternalServerError>>]

Failed == Len(last.writes) >= 1 /\ last.writes[1].status >= 400

CodeAndStatus == <<last.writes[1].body.error, last.writes[1].status>>

\* the kind of failure of the request just handled
FailureKind ==
    CASE HandledAuth -> "Unauthenticated"
      [] HandledLogin /\ last.lookups = 0 -> "InvalidInput"
      [] HandledLogin /\ last.setCookie = NoCookie /\ last.nErrors > 0
            /\ (UnknownIdentifier(last.req) \/ WrongPassword(last.req)) ->
            "InvalidCredentials"
      [] HandledSignup /\ last.hashes = 0 -> "InvalidInput"
      [] HandledSignup /\ Existed -> "DuplicateIdentity"
      [] OTHER -> "Internal"

\* C17: every failure response carries the code and the status the taxonomy
\* table gives for its kind: VALIDATION_ERROR/400 for invalid input,
\* AUTH_INVALID/401 for invalid credentials, DB_DUPLICATE/409 for a
\* duplicate identity, AUTH_REQUIRED/401 for an unauthenticated request,
\* INTERNAL_ERROR/500 for an internal failure.
C17_TaxonomyFollowed ==
    Failed => CodeAndStatus = Taxonomy[FailureKind]

\* C18: a login with a registered email and the matching password is
\* answered 200 with message "login_success" and sets the token cookie to a
\* token signed with HS256 under SECRET_KEY whose email is the submitted one
\* and whose exp is the instant of the login plus 24 hours; every other login
\* sets no token and is not answered 200.
C18_LoginIssuesToken ==
    HandledLogin =>
        IF ~last.req.malformed /\ last.req.password # PwMissing
              /\ MatchesStored(last.req, last.before)
        THEN /\ last.writes = <<Write(200, Body(Absent, "login_success", DAbsent, Absent))>>
             /\ last.setCookie =
                    Token("HS256", "HS256", SECRET_KEY, TRUE, last.req.email,
                          last.at + 24 * 3600)
        ELSE /\ ~last.setCookie.present
             /\ Len(last.writes) = 1
             /\ last.writes[1].status # 200

C18_Witness ==
    /\ HandledLogin
    /\ last.at > 0
    /\ last.req.email = EmailB
    /\ last.setCookie.present
    /\ last.setCookie.exp = last.at + 24 * 3600
    /\ jar.token = last.setCookie

InvalidLoginInput(req) ==
    \/ req.malformed
    \/ req.email = EmailMissing
    \/ req.email \notin {EmailA, EmailB}
    \/ req.password = PwMissing

\* C19: a login whose body is malformed, whose email is missing or malformed
\* or whose password is missing is answered with one response of status 400
\* whose body has the key "error" with the value VALIDATION_ERROR; the store
\* was not queried and no token was set.
C19_InvalidLoginRejected ==
    (HandledLogin /\ InvalidLoginInput(last.req)) =>
        /\ Len(last.writes) = 1
        /\ last.writes[1].status = 400
        /\ HasKey(last.writes[1].body, "error")
        /\ last.writes[1].body.error = "VALIDATION_ERROR"
        /\ last.lookups = 0
        /\ ~last.setCookie.present

C19_Witness ==
    /\ HandledLogin
    /\ last.req.email = EmailBad
    /\ last.req.password = PwTest
    /\ last.before # {}
    /\ last.lookups = 0
    /\ last.writes[1].body.details = DMap({<<"email", "invalid_email_format">>})

\* the texts of the errors the jwt library, the store and bcrypt return
RawCauses ==
    {"token contains an invalid number of segments",
     "unexpected signing method: RS256", "unexpected signing method: none",
     "Token is expired", "signature is invalid", "key is of invalid type",
     StoreFault, NoRows, PqUniqueViolation,
     "bcrypt: password length exceeds 72 bytes"}

\* every text a body carries
BodyTexts(body) ==
    {body.error, body.message, body.code, body.details.s}
        \cup {kv[2] : kv \in body.details.m}

\* C20: no body written by the login handler, the signup handler, Auth or
\* ErrorHandler carries the text of an error returned by a library, the
\* store or the token parser.
C20_NoRawCause ==
    \A i \in 1..Len(last.writes) :
        BodyTexts(last.writes[i].body) \cap RawCauses = {}

\* what a freshly started server, handling nothing else, answers to a login
AloneResponse(req) ==
    ErrorHandler(LoginHandler(req, users, dbUp, CommonErrors, now)).writes

\* C21: however logins interleave, the response a login gets (code, message,
\* details, status) is the one it would get if it were the only request the
\* server ever handled; the details of an invalid login are never those of
\* another request.
C21_ResponseIsOwn ==
    \A p \in Procs :
        running[p].pc = "done" => running[p].writes = AloneResponse(running[p].req)

\* C22: a login calls the store's lookup at most once and a signup the
\* store's create at most once; when the store fails that call, the same
\* request is answered with a failure (401 for the login, 500 for the
\* signup) after that one call, and the table is as it was.
C22_NoRetry ==
    /\ HandledLogin =>
          /\ last.lookups <= 1
          /\ last.creates = 0
          /\ (~dbUp /\ ~InvalidLoginInput(last.req)) =>
                /\ last.lookups = 1
                /\ Len(last.writes) = 1
                /\ last.writes[1].status = 401
    /\ HandledSignup =>
          /\ last.creates <= 1
          /\ last.lookups = 0
          /\ (~dbUp /\ OtherwiseValid(last.req) /\ LengthOK(last.req.password)
                 /\ ClassesOK(last.req.password)) =>
                /\ last.creates = 1
                /\ Len(last.writes) = 1
                /\ last.writes[1].status = 500
                /\ users = last.before

C22_Witness ==
    /\ HandledSignup
    /\ ~dbUp
    /\ last.creates = 1
    /\ last.before # {}
    /\ last.writes[1].status = 500

\* the AppError a recorded error stands for when the handler has returned
Recorded(err, g) == IF err.global # "" THEN g[err.global] ELSE err.val

\* a handler's return h and what ErrorHandler makes of it: one body in all,
\* the handler's own when it recorded no error, and otherwise the body of
\* the last error it recorded, the handler having written none
OneBody(h) ==
    LET e == ErrorHandler(h) IN
    /\ Len(e.writes) = 1
    /\ ~(Len(h.writes) > 0 /\ Len(h.errors) > 0)
    /\ Len(h.errors) = 0 => e.writes = h.writes
    /\ Len(h.errors) > 0 =>
          LET a == Recorded(h.errors[Len(h.errors)], h.globals) IN
          e.writes = <<Write(a.HTTPStatus, Body(a.Code, a.Message, a.Details, Absent))>>

\* C23: whatever the request and whether or not the store answers, a login
\* or a signup behind ErrorHandler gets exactly one body: the handler never
\* both writes a body and records an error, and ErrorHandler writes a body
\* only when an error was recorded, that of the last one recorded.
C23_ExactlyOneBody ==
    /\ \A req \in LoginRequests : OneBody(LoginHandler(req, users, dbUp, globals, now))
    /\ \A req \in SignupRequests : \A salt \in Salts :
          OneBody(SignupHandler(req, users, dbUp, globals, salt))
    /\ (HandledLogin \/ HandledSignup) =>
          /\ Len(last.writes) = 1
          /\ last.nErrors <= 1
          /\ HandledSignup => last.nErrors = 0

C23_Witness ==
    /\ HandledLogin
    /\ ~dbUp
    /\ last.nErrors = 1
    /\ Len(last.writes) = 1
    /\ last.writes[1].body.error = ErrAuthInvalid

\* C24: a request whose handler panics gets exactly one body, written by
\* ErrorHandler, and the chain is aborted: INTERNAL_ERROR with status 500
\* when the panic value is not an error, and otherwise the code, message,
\* details and status of the AppError on the error's chain, or
\* INTERNAL_ERROR with status 500 when there is none; the table, the
\* package-level errors, the cookie jar and the store's availability are as
\* they were for the requests that follow.
C24_PanicRecovered ==
    [][last'.kind = "panic" =>
          /\ Len(last'.writes) = 1
          /\ last'.aborted
          /\ LET w == last'.writes[1]
                 r == last'.panic
                 chain == IF r.isError THEN As(r.err) ELSE [found |-> FALSE, node |-> NilErr]
             IN IF chain.found
                THEN LET a == Deref(chain.node, globals) IN
                     /\ w.status = a.HTTPStatus
                     /\ w.body = Body(a.Code, a.Message, a.Details, Absent)
                ELSE /\ w.status = 500
                     /\ w.body.error = "INTERNAL_ERROR"
          /\ UNCHANGED <<users, globals, jar, dbUp, running>>]_vars

C24_Witness ==
    /\ last.kind = "panic"
    /\ last.panic.isError
    /\ ~last.panic.err.isApp
    /\ As(last.panic.err).found
    /\ users # {}
    /\ Len(last.writes) = 1
    /\ last.writes[1].status = StatusUnauthorized

\* the nodes of an error chain, outermost first
RECURSIVE Chain(_)
Chain(err) ==
    IF err = NilErr
    THEN <<>>
    ELSE IF err.cause = <<>> THEN <<err>> ELSE <<err>> \o Chain(err.cause[1])

AppErrorsOn(err) == {i \in DOMAIN Chain(err) : Chain(err)[i].isApp}

\* C25: FormatError returns nil for nil; for an error that is an AppError
\* or wraps one it returns that AppError, the outermost on the chain, with
\* the fields it has; for any other error it returns an AppError with code
\* INTERNAL_ERROR, status 500 and the message "An unexpected error
\* occurred" that wraps the error; and FormatError of what it returned is
\* what it returned.
C25_FormatError ==
    /\ last.kind \in {"formatted", "again"} =>
          LET err == last.err
              out == last.out
          IN
          /\ err = NilErr => out = NilPtrErr
          /\ AppErrorsOn(err) # {} =>
                LET i == CHOOSE i \in AppErrorsOn(err) : \A j \in AppErrorsOn(err) : i <= j
                IN /\ out = Chain(err)[i]
                   /\ Deref(out, globals) = Deref(Chain(err)[i], globals)
          /\ (err # NilErr /\ AppErrorsOn(err) = {}) =>
                /\ out.isApp
                /\ out.global = ""
                /\ out.val = AppError("INTERNAL_ERROR", "An unexpected error occurred",
                                      DNull, 500)
                /\ Len(out.cause) = 1
                /\ out.cause[1].cause = <<err>>
    /\ last.kind = "again" => last.again = last.out

C25_Witness ==
    /\ last.kind = "again"
    /\ last.err # NilErr
    /\ ~last.err.isApp
    /\ Len(Chain(last.err)) = 4
    /\ AppErrorsOn(last.err) = {3}
    /\ last.out.global = "ErrInvalidInput"
    /\ Deref(last.out, globals).Details = DStr("password")
    /\ last.again = last.out

====
